---- MODULE Spec2Model ----
(***************************************************************************)
(* QAEvaluator (promptflow/evals/evaluators/qa/__init__.py): a composite   *)
(* evaluator that calls six sub-evaluators with the same keyword arguments *)
(* and merges the dictionaries they return with dict.update, either in a   *)
(* plain loop or through a ThreadPoolExecutor and as_completed.            *)
(***************************************************************************)
EXTENDS Integers, Sequences, FiniteSets, TLC

\* ------------------------------------------------------------------ bounds
\* at most this many sub-evaluators of one call raise
MaxFail == 1
\* at most this many sub-evaluators of one call emit the colliding key
MaxShare == 2
\* worker threads of ThreadPoolExecutor(): min(32, cpu_count + 4), so at least 5
MaxWorkers == 5

\* ------------------------------------------------------- program constants
\* the list built by __init__ has six entries
NumEvaluators == 6

\* two callers, each making one call on the same instance
Calls == {1, 2}
Idx == 1..NumEvaluators

\* self._evaluators as __init__ builds it, in construction order
EvaluatorList ==
    <<"Groundedness", "Relevance", "Coherence", "Fluency", "Similarity", "F1Score">>

\* ------------------------------------------------------------ dictionaries
\* a dict is a function whose domain is its key set
EmptyMap == [k \in {} |-> 0]

\* the keys already present are kept (a plausible slip: setdefault semantics)
Update_keepfirst(r, m) ==
    [k \in DOMAIN r \cup DOMAIN m |-> IF k \in DOMAIN r THEN r[k] ELSE m[k]]

\* dict.update: every key of m is written, overwriting what r held
Update(r, m) ==
    [k \in DOMAIN r \cup DOMAIN m |-> IF k \in DOMAIN m THEN m[k] ELSE r[k]]

\* --------------------------------------------------- sub-evaluator outcomes
\* the metric only sub-evaluator i emits
OwnKey(i) == EvaluatorList[i]
\* a metric name more than one sub-evaluator may emit (nothing namespaces them)
SharedKey == "score"

NoOut == [tag |-> "none", map |-> EmptyMap, exc |-> 0]
Ok(m) == [tag |-> "ok", map |-> m, exc |-> 0]
\* the error object sub-evaluator i raises
Err(i) == [tag |-> "err", map |-> EmptyMap, exc |-> i]

OwnOnly(i) == [k \in {OwnKey(i)} |-> 1]
WithShared(i) == [k \in {OwnKey(i), SharedKey} |-> IF k = SharedKey THEN 10 + i ELSE 1]

\* what the six sub-evaluators of one call do: those of F raise, those of S emit
\* the colliding key beside their own
PlanOf(F, S) ==
    [i \in Idx |-> IF i \in F THEN Err(i)
                   ELSE IF i \in S THEN Ok(WithShared(i)) ELSE Ok(OwnOnly(i))]

UpTo(S, n) == {T \in SUBSET S : Cardinality(T) <= n}

\* sequential mode: any sub-evaluator may raise or emit the colliding key
LoopPlans == {PlanOf(F, S) : F \in UpTo(Idx, MaxFail), S \in UpTo(Idx, MaxShare)}
\* concurrent mode: the first submitted, a middle one or the last submitted raises
PoolPlans ==
    {PlanOf(F, S) : F \in UpTo({1, 3, 6}, MaxFail), S \in UpTo({2, 4, 5}, MaxShare)}
\* two calls: both with the same collision; a collision, then none; a failure, then none
PairPlans ==
    { <<PlanOf({}, {2, 5}), PlanOf({}, {2, 5})>>,
      <<PlanOf({}, {2, 5}), PlanOf({}, {})>>,
      <<PlanOf({3}, {2, 5}), PlanOf({}, {})>> }

\* ---------------------------------------------------------- call arguments
NoArgs == [question |-> "", answer |-> "", context |-> "", ground_truth |-> "",
           kwargs |-> EmptyMap]
\* the four required keyword names of __call__
Required == {"question", "answer", "context", "ground_truth"}
Input1 == [question |-> "q1", answer |-> "a1", context |-> "c1", ground_truth |-> "g1",
           kwargs |-> EmptyMap]
Input2 == [question |-> "q2", answer |-> "a2", context |-> "c2", ground_truth |-> "g2",
           kwargs |-> [k \in {"temperature"} |-> "t7"]]
\* the keyword arguments a caller may pass to __call__
Inputs == {Input1, Input2}

VARIABLES
    parallel,    \* self._parallel
    evaluators,  \* self._evaluators
    given,       \* per call: the arguments the caller passes
    plan,        \* per call, per sub-evaluator: what its invocation will produce
    pc,          \* per call: position of the caller's thread in __call__
    args,        \* per call: question, answer, context, ground_truth, kwargs
    results,     \* per call: the local dict `results`
    pos,         \* per call: sub-evaluators submitted (pool) or invoked (loop)
    fut,         \* per call, per sub-evaluator: state of its future / invocation
    recv,        \* per call, per sub-evaluator: the keyword arguments it was given
    ncalls,      \* per call, per sub-evaluator: times it was invoked
    snap,        \* per call: futures found finished by as_completed, not yet yielded
    wl,          \* per call: waiter.finished_futures, not yet yielded
    nmerged,     \* per call: futures as_completed has yielded
    exc,         \* per call: exception in flight out of the with block (0: none)
    ret,         \* per call: what the caller got
    lastDone,    \* history: per call, key -> sub-evaluator that completed last emitting it
    unordered,   \* history: per call, keys whose last emitters all finished before collection
    late         \* history: per call, one raised while another waited behind busy workers

vars == <<parallel, evaluators, given, plan, pc, args, results, pos, fut, recv, ncalls,
          snap, wl, nmerged, exc, ret, lastDone, unordered, late>>

NoRet == [kind |-> "none", map |-> EmptyMap, exc |-> 0]
Returned(m) == [kind |-> "returned", map |-> m, exc |-> 0]
Raised(e) == [kind |-> "raised", map |-> EmptyMap, exc |-> e]

\* ------------------------------------------------------------------- Init
\* the instance after __init__, and the calls that will be made on it
InitLocals ==
    /\ evaluators = EvaluatorList
    /\ args = [c \in Calls |-> NoArgs]
    /\ results = [c \in Calls |-> EmptyMap]
    /\ pos = [c \in Calls |-> 0]
    /\ fut = [c \in Calls |-> [i \in Idx |-> "none"]]
    /\ recv = [c \in Calls |-> [i \in Idx |-> EmptyMap]]
    /\ ncalls = [c \in Calls |-> [i \in Idx |-> 0]]
    /\ snap = [c \in Calls |-> {}]
    /\ wl = [c \in Calls |-> <<>>]
    /\ nmerged = [c \in Calls |-> 0]
    /\ exc = [c \in Calls |-> 0]
    /\ ret = [c \in Calls |-> NoRet]
    /\ lastDone = [c \in Calls |-> EmptyMap]
    /\ unordered = [c \in Calls |-> {}]
    /\ late = [c \in Calls |-> FALSE]

\* one call, on any arguments, the sub-evaluators behaving in any way within the bounds
Init ==
    /\ parallel \in BOOLEAN
    /\ \E a \in Inputs : given = [c \in Calls |-> a]
    /\ \E p \in (IF parallel THEN PoolPlans ELSE LoopPlans) : plan = [c \in Calls |-> p]
    /\ pc = [c \in Calls |-> IF c = 1 THEN "idle" ELSE "off"]
    /\ InitLocals

\* two calls on the same instance, one after the other or overlapping
InitPair ==
    /\ parallel \in BOOLEAN
    /\ given = [c \in Calls |-> IF c = 1 THEN Input1 ELSE Input2]
    /\ plan \in PairPlans
    /\ pc = [c \in Calls |-> "idle"]
    /\ InitLocals

\* ---------------------------------------------------------------- helpers
\* what sub-evaluator i of call c has produced so far
Out(c, i) == IF fut[c][i] = "done" THEN plan[c][i] ELSE NoOut

\* results refers to the dict of the other call (a plausible slip: a shared dict)
FreshResults_shared(c) == results[3 - c]

\* results = {}
FreshResults(c) == EmptyMap

\* the keyword arguments without **kwargs (a plausible slip)
Forwarded_nokwargs(a) ==
    [question |-> a.question, answer |-> a.answer, context |-> a.context,
     ground_truth |-> a.ground_truth]

\* evaluator(question=question, answer=answer, context=context,
\*           ground_truth=ground_truth, **kwargs)
Forwarded(a) ==
    Update([question |-> a.question, answer |-> a.answer, context |-> a.context,
            ground_truth |-> a.ground_truth], a.kwargs)

\* history: sub-evaluator i completed with mapping m
Completed(ld, i, m) == Update(ld, [k \in DOMAIN m |-> i])

\* iterating an unordered collection (a plausible slip: a set of evaluators)
SeqTurn_unordered(c) == {i \in Idx : ncalls[c][i] = 0}

\* for evaluator in self._evaluators: the one whose turn it is
SeqTurn(c) == {pos[c] + 1}

\* the loop over as_completed stops as soon as nothing is ready (a plausible slip)
Exhausted_early(c) == snap[c] = {} /\ wl[c] = <<>>

\* as_completed has yielded every future
Exhausted(c) == nmerged[c] = Len(evaluators)

\* the newest report first (a plausible slip: a stack instead of a queue)
Ready_lifo(c) ==
    IF snap[c] # {} THEN snap[c]
    ELSE IF wl[c] # <<>> THEN {wl[c][Len(wl[c])]} ELSE {}

\* the futures as_completed may yield next: those finished before it started come
\* first, in the iteration order of a set; then the ones reported to the waiter,
\* oldest report first
Ready(c) ==
    IF snap[c] # {} THEN snap[c]
    ELSE IF wl[c] # <<>> THEN {Head(wl[c])} ELSE {}

\* shutdown(wait=False): leaving the with block does not join the workers
Joined_nowait(c) == TRUE

\* ThreadPoolExecutor.__exit__: shutdown(wait=True) returns when no work is left
Joined(c) == \A i \in Idx : fut[c][i] = "done"

\* the exception of a failed future is dropped (a plausible slip: except: pass)
Failed_swallowed(o) == FALSE

\* future.result() and the evaluator call raise what the sub-evaluator raised
Failed(o) == o.tag = "err"

\* the comprehension is left after the first submit (a plausible slip: collecting
\* inside the loop that submits)
AllSubmitted_first(i) == i >= 1

\* lines 72-82: the dict comprehension has gone through self._evaluators
AllSubmitted(i) == i = Len(evaluators)

\* the pools of two overlapping calls are explored one after the other
PoolFree(c) == \A d \in Calls \ {c} : pc[d] \notin {"submit", "collect", "merge", "exit"}

\* keys that two of the futures of D both emit
Colliding(c, D) ==
    {k \in UNION {DOMAIN plan[c][i].map : i \in D} :
        Cardinality({i \in D : k \in DOMAIN plan[c][i].map}) > 1}

\* lines 87-93 as a function of the six outcomes: the mappings merged in list order
RECURSIVE SeqFold(_, _)
SeqFold(p, n) == IF n = 0 THEN EmptyMap ELSE Update(SeqFold(p, n - 1), p[n].map)

\* ---------------------------------------------------------------- actions
\* lines 52, 68, 69: a caller invokes the instance; results = {}; the mode is read
BeginCall(c) ==
    /\ pc[c] = "idle"
    /\ args' = [args EXCEPT ![c] = given[c]]
    /\ results' = [results EXCEPT ![c] = FreshResults(c)]
    /\ pc' = [pc EXCEPT ![c] = IF parallel THEN "pool" ELSE "loop"]
    /\ UNCHANGED <<parallel, evaluators, given, plan, pos, fut, recv, ncalls, snap,
                   wl, nmerged, exc, ret, lastDone, unordered, late>>

\* lines 88-91: one turn of the sequential loop. The sub-evaluator either raises,
\* and the exception leaves __call__ at once, or returns a mapping that is merged.
SeqInvoke(c) ==
    /\ pc[c] = "loop"
    /\ pos[c] < Len(evaluators)
    /\ \E i \in SeqTurn(c) :
        LET o == plan[c][i] IN
        /\ recv' = [recv EXCEPT ![c][i] = Forwarded(args[c])]
        /\ ncalls' = [ncalls EXCEPT ![c][i] = @ + 1]
        /\ fut' = [fut EXCEPT ![c][i] = "done"]
        /\ lastDone' = [lastDone EXCEPT ![c] = Completed(@, i, o.map)]
        /\ IF Failed(o)
           THEN /\ pc' = [pc EXCEPT ![c] = "done"]
                /\ ret' = [ret EXCEPT ![c] = Raised(o.exc)]
                /\ results' = [results EXCEPT ![c] = EmptyMap]
                /\ UNCHANGED pos
           ELSE /\ results' = [results EXCEPT ![c] = Update(@, o.map)]
                /\ pos' = [pos EXCEPT ![c] = @ + 1]
                /\ pc' = [pc EXCEPT ![c] =
                            IF pos[c] + 1 = Len(evaluators) THEN "return" ELSE "loop"]
                /\ UNCHANGED ret
    /\ UNCHANGED <<parallel, evaluators, given, plan, args, snap, wl, nmerged, exc,
                   unordered, late>>

\* line 70: with ThreadPoolExecutor() as executor
EnterPool(c) ==
    /\ pc[c] = "pool"
    /\ PoolFree(c)
    /\ pc' = [pc EXCEPT ![c] = "submit"]
    /\ UNCHANGED <<parallel, evaluators, given, plan, args, results, pos, fut, recv,
                   ncalls, snap, wl, nmerged, exc, ret, lastDone, unordered, late>>

\* lines 72-82: executor.submit for the next evaluator of the list; the work item
\* holds the keyword arguments and waits in the pool's queue
Submit(c) ==
    /\ pc[c] = "submit"
    /\ LET i == pos[c] + 1 IN
        /\ fut' = [fut EXCEPT ![c][i] = "queued"]
        /\ recv' = [recv EXCEPT ![c][i] = Forwarded(args[c])]
        /\ pos' = [pos EXCEPT ![c] = i]
        /\ pc' = [pc EXCEPT ![c] = IF AllSubmitted(i) THEN "collect" ELSE "submit"]
    /\ UNCHANGED <<parallel, evaluators, given, plan, args, results, ncalls, snap, wl,
                   nmerged, exc, ret, lastDone, unordered, late>>

\* a worker thread takes the oldest work item of the queue and calls the evaluator
Start(c, i) ==
    /\ fut[c][i] = "queued"
    /\ \A j \in Idx : j < i => fut[c][j] \in {"running", "done"}
    /\ Cardinality({j \in Idx : fut[c][j] = "running"}) < MaxWorkers
    /\ fut' = [fut EXCEPT ![c][i] = "running"]
    /\ ncalls' = [ncalls EXCEPT ![c][i] = @ + 1]
    /\ UNCHANGED <<parallel, evaluators, given, plan, pc, args, results, pos, recv,
                   snap, wl, nmerged, exc, ret, lastDone, unordered, late>>

\* the evaluator returns or raises in its worker; the future is set, and reported
\* to the waiter when as_completed has installed one
Finish(c, i) ==
    /\ fut[c][i] = "running"
    /\ fut' = [fut EXCEPT ![c][i] = "done"]
    /\ lastDone' = [lastDone EXCEPT ![c] = Completed(@, i, plan[c][i].map)]
    /\ wl' = [wl EXCEPT ![c] = IF pc[c] = "merge" THEN Append(@, i) ELSE @]
    /\ unordered' = [unordered EXCEPT ![c] =
                        IF pc[c] = "merge" THEN @ \ DOMAIN plan[c][i].map ELSE @]
    /\ late' = [late EXCEPT ![c] =
                    \/ @
                    \/ /\ Failed(plan[c][i])
                       /\ \E j \in Idx : fut[c][j] = "queued"
                       /\ Cardinality({j \in Idx : fut[c][j] = "running"}) = MaxWorkers]
    /\ UNCHANGED <<parallel, evaluators, given, plan, pc, args, results, pos, recv,
                   ncalls, snap, nmerged, exc, ret>>

\* line 85: as_completed(futures) starts; it sets apart the futures already finished
Collect(c) ==
    /\ pc[c] = "collect"
    /\ LET done == {i \in Idx : fut[c][i] = "done"} IN
        /\ snap' = [snap EXCEPT ![c] = done]
        /\ unordered' = [unordered EXCEPT ![c] = Colliding(c, done)]
    /\ pc' = [pc EXCEPT ![c] = "merge"]
    /\ UNCHANGED <<parallel, evaluators, given, plan, args, results, pos, fut, recv,
                   ncalls, wl, nmerged, exc, ret, lastDone, late>>

\* lines 85-86: as_completed yields a future; future.result() re-raises what the
\* evaluator raised, or returns its mapping, which results.update merges
Merge(c) ==
    /\ pc[c] = "merge"
    /\ ~Exhausted(c)
    /\ \E i \in Ready(c) :
        /\ snap' = [snap EXCEPT ![c] = @ \ {i}]
        /\ wl' = [wl EXCEPT ![c] =
                    IF i \in snap[c] THEN @ ELSE SelectSeq(@, LAMBDA x : x # i)]
        /\ nmerged' = [nmerged EXCEPT ![c] = @ + 1]
        /\ IF Failed(plan[c][i])
           THEN /\ exc' = [exc EXCEPT ![c] = plan[c][i].exc]
                /\ pc' = [pc EXCEPT ![c] = "exit"]
                /\ UNCHANGED results
           ELSE /\ results' = [results EXCEPT ![c] = Update(@, plan[c][i].map)]
                /\ UNCHANGED <<exc, pc>>
    /\ UNCHANGED <<parallel, evaluators, given, plan, args, pos, fut, recv, ncalls,
                   ret, lastDone, unordered, late>>

\* line 85: the for loop ends when as_completed is exhausted
EndLoop(c) ==
    /\ pc[c] = "merge"
    /\ Exhausted(c)
    /\ pc' = [pc EXCEPT ![c] = "exit"]
    /\ UNCHANGED <<parallel, evaluators, given, plan, args, results, pos, fut, recv,
                   ncalls, snap, wl, nmerged, exc, ret, lastDone, unordered, late>>

\* line 70: the with block is left; __exit__ waits for the workers, then the
\* exception in flight, if any, goes on to the caller and the locals are dropped
ExitPool(c) ==
    /\ pc[c] = "exit"
    /\ Joined(c)
    /\ IF exc[c] # 0
       THEN /\ pc' = [pc EXCEPT ![c] = "done"]
            /\ ret' = [ret EXCEPT ![c] = Raised(exc[c])]
            /\ results' = [results EXCEPT ![c] = EmptyMap]
       ELSE /\ pc' = [pc EXCEPT ![c] = "return"]
            /\ UNCHANGED <<ret, results>>
    /\ snap' = [snap EXCEPT ![c] = {}]
    /\ wl' = [wl EXCEPT ![c] = <<>>]
    /\ nmerged' = [nmerged EXCEPT ![c] = 0]
    /\ exc' = [exc EXCEPT ![c] = 0]
    /\ UNCHANGED <<parallel, evaluators, given, plan, args, pos, fut, recv, ncalls,
                   lastDone, unordered, late>>

\* line 93: return results
Return(c) ==
    /\ pc[c] = "return"
    /\ pc' = [pc EXCEPT ![c] = "done"]
    /\ ret' = [ret EXCEPT ![c] = Returned(results[c])]
    /\ UNCHANGED <<parallel, evaluators, given, plan, args, results, pos, fut, recv,
                   ncalls, snap, wl, nmerged, exc, lastDone, unordered, late>>

Next ==
    \/ \E c \in Calls : BeginCall(c)
    \/ \E c \in Calls : SeqInvoke(c)
    \/ \E c \in Calls : EnterPool(c)
    \/ \E c \in Calls : Submit(c)
    \/ \E c \in Calls : \E i \in Idx : Start(c, i)
    \/ \E c \in Calls : \E i \in Idx : Finish(c, i)
    \/ \E c \in Calls : Collect(c)
    \/ \E c \in Calls : Merge(c)
    \/ \E c \in Calls : EndLoop(c)
    \/ \E c \in Calls : ExitPool(c)
    \/ \E c \in Calls : Return(c)

\* one call
Spec == Init /\ [][Next]_vars
\* two calls on one instance
SpecPair == InitPair /\ [][Next]_vars

\* ----------------------------------------------------------------- claims
AllSucceed(c) == \A i \in Idx : plan[c][i].tag = "ok"
\* the sub-evaluators of call c that emit key k
Emitters(c, k) == {i \in Idx : k \in DOMAIN plan[c][i].map}
\* every key a sub-evaluator of call c emits
AllKeys(c) == UNION {DOMAIN plan[c][i].map : i \in Idx}
Last(S) == CHOOSE i \in S : \A j \in S : j <= i
HasReturned(c) == ret[c].kind = "returned"
HasRaised(c) == ret[c].kind = "raised"

\* C1: in sequential mode, when all six sub-evaluators succeed, the returned mapping
\* has exactly the keys of the six mappings, and a key emitted by several of them
\* has the value of the last one, in construction order, that emits it.
C1_SequentialLastInListWins ==
    \A c \in Calls :
        (~parallel /\ AllSucceed(c) /\ HasReturned(c)) =>
            /\ DOMAIN ret[c].map = AllKeys(c)
            /\ \A k \in AllKeys(c) :
                ret[c].map[k] = plan[c][Last(Emitters(c, k))].map[k]

\* a sequential call returned and two sub-evaluators had emitted the same key
C1_Witness ==
    /\ ~parallel
    /\ HasReturned(1)
    /\ Cardinality(Emitters(1, SharedKey)) >= 2

\* C2: a concurrent call whose six sub-evaluators succeed returns the key set the
\* sequential loop returns on the same six mappings, whatever the completion order,
\* and the same mapping when no key is emitted twice.
C2_ConcurrentSameKeysAsSequential ==
    \A c \in Calls :
        (parallel /\ AllSucceed(c) /\ HasReturned(c)) =>
            /\ DOMAIN ret[c].map = DOMAIN SeqFold(plan[c], NumEvaluators)
            /\ Colliding(c, Idx) = {} => ret[c].map = SeqFold(plan[c], NumEvaluators)

\* a concurrent call whose six mappings share no key returned
C2_Witness ==
    /\ parallel
    /\ HasReturned(1)
    /\ Colliding(1, Idx) = {}
    /\ DOMAIN ret[1].map = AllKeys(1)

\* C3: all or nothing, in both modes. A call that ends after a sub-evaluator raised
\* raises, with the error one of its failing sub-evaluators raised and no mapping;
\* nothing is returned while the exception is on its way; a call that returns a
\* mapping had six successes and returns every metric of the six.
C3_AllOrNothing ==
    \A c \in Calls :
        /\ pc[c] = "done" => ret[c].kind \in {"returned", "raised"}
        /\ (pc[c] = "done" /\ \E i \in Idx : Out(c, i).tag = "err") => HasRaised(c)
        /\ HasRaised(c) =>
            /\ \E i \in Idx : Out(c, i).tag = "err" /\ ret[c].exc = Out(c, i).exc
            /\ ret[c].map = EmptyMap
        /\ exc[c] # 0 => ret[c].kind = "none"
        /\ HasReturned(c) =>
            /\ \A i \in Idx : Out(c, i).tag = "ok"
            /\ AllKeys(c) \subseteq DOMAIN ret[c].map

\* a concurrent merge was aborted by a failure after mappings had been merged
C3_Witness ==
    /\ parallel
    /\ pc[1] = "exit"
    /\ exc[1] # 0
    /\ results[1] # EmptyMap

\* the keyword arguments the caller of call c passed, as a sub-evaluator must see them
Expected(c) ==
    [k \in Required \cup DOMAIN given[c].kwargs |->
        IF k = "question" THEN given[c].question
        ELSE IF k = "answer" THEN given[c].answer
        ELSE IF k = "context" THEN given[c].context
        ELSE IF k = "ground_truth" THEN given[c].ground_truth
        ELSE given[c].kwargs[k]]

\* C4: in both modes every invocation of a sub-evaluator gets exactly the call's
\* question, answer, context and ground_truth and exactly the call's additional
\* named arguments, so all six get the same.
C4_ArgumentsForwardedUnchanged ==
    \A c \in Calls : \A i \in Idx :
        (fut[c][i] # "none" \/ ncalls[c][i] > 0) => recv[c][i] = Expected(c)

\* a concurrent call given an additional named argument has invoked all six
C4_Witness ==
    /\ parallel
    /\ given[1].kwargs # EmptyMap
    /\ \A i \in Idx : ncalls[1][i] = 1

\* C5: in sequential mode the sub-evaluators are invoked one at a time in list
\* order, at most once each and never after a failure; when the one at position i
\* raises the caller has the error at once, those before i ran once, those after
\* i never run.
C5_SequentialStopsAtFailure ==
    \A c \in Calls : ~parallel =>
        /\ \A i \in Idx :
            /\ ncalls[c][i] <= 1
            /\ ncalls[c][i] = 1 =>
                \A j \in Idx : j < i => (ncalls[c][j] = 1 /\ plan[c][j].tag = "ok")
            /\ (ncalls[c][i] = 1 /\ plan[c][i].tag = "err") =>
                (HasRaised(c) /\ ret[c].exc = plan[c][i].exc)
        /\ HasRaised(c) =>
            \A j \in Idx :
                ncalls[c][j] = (IF j <= ret[c].exc THEN 1 ELSE 0)

\* a sequential call raised at a position with sub-evaluators before and after it
C5_Witness ==
    /\ ~parallel
    /\ HasRaised(1)
    /\ ret[1].exc \in 2..(NumEvaluators - 1)

\* C6: in concurrent mode nothing is collected before all six invocations are
\* submitted, no mapping is returned while an invocation is pending or running,
\* and the caller has an outcome only when all six have finished or one has failed.
C6_SubmitAllThenWait ==
    \A c \in Calls : parallel =>
        /\ (pc[c] = "merge" \/ nmerged[c] > 0 \/ results[c] # EmptyMap) =>
            \A i \in Idx : fut[c][i] # "none"
        /\ HasReturned(c) => \A i \in Idx : fut[c][i] = "done"
        /\ ret[c].kind # "none" =>
            \/ \A i \in Idx : fut[c][i] = "done"
            \/ \E i \in Idx : Out(c, i).tag = "err"

\* results are being collected, one merged already, while an invocation still runs
C6_Witness ==
    /\ parallel
    /\ pc[1] = "merge"
    /\ nmerged[1] > 0
    /\ \E i \in Idx : fut[1][i] = "running"
    /\ ret[1].kind = "none"

\* C7 as stated: in concurrent mode, all six succeeding, the returned mapping has
\* the keys of all six, and a key emitted by several sub-evaluators has the value
\* of the one of them that completed last, even when several had completed before
\* result collection started.
C7_LastCompletedWins ==
    \A c \in Calls :
        (parallel /\ AllSucceed(c) /\ HasReturned(c)) =>
            /\ DOMAIN ret[c].map = AllKeys(c)
            /\ \A k \in Colliding(c, Idx) :
                ret[c].map[k] = plan[c][lastDone[c][k]].map[k]

\* C7 amended: the value is the one of the emitter that completed last, unless two
\* or more emitters had completed when collection started and none completed
\* afterwards; then it is the value of one of the emitters.
C7_LastCompletedWinsUnlessUnordered ==
    \A c \in Calls :
        (parallel /\ AllSucceed(c) /\ HasReturned(c)) =>
            /\ DOMAIN ret[c].map = AllKeys(c)
            /\ \A k \in Colliding(c, Idx) :
                IF k \in unordered[c]
                THEN \E i \in Emitters(c, k) : ret[c].map[k] = plan[c][i].map[k]
                ELSE ret[c].map[k] = plan[c][lastDone[c][k]].map[k]

\* a concurrent call returned the value of the emitter that completed last, which
\* is not the last emitter of the list, none of the emitters being unordered
C7_Witness ==
    /\ parallel
    /\ AllSucceed(1)
    /\ HasReturned(1)
    /\ SharedKey \in Colliding(1, Idx)
    /\ SharedKey \notin unordered[1]
    /\ lastDone[1][SharedKey] # Last(Emitters(1, SharedKey))
    /\ ret[1].map[SharedKey] = plan[1][lastDone[1][SharedKey]].map[SharedKey]

\* C8: two sequential calls whose sub-evaluators produce the same outcomes give the
\* caller the same outcome; a concurrent call returns, for a key emitted by
\* several sub-evaluators, the value of one of them, which one depending on the
\* interleaving (the witness: two concurrent calls on the same outcomes differ).
C8_SequentialDeterministic ==
    \A c \in Calls : \A d \in Calls :
        /\ (~parallel /\ plan[c] = plan[d] /\ pc[c] = "done" /\ pc[d] = "done") =>
            ret[c] = ret[d]
        /\ (parallel /\ HasReturned(c)) =>
            \A k \in DOMAIN ret[c].map :
                \E i \in Emitters(c, k) : ret[c].map[k] = plan[c][i].map[k]

\* two concurrent calls on the same six mappings returned different values for the
\* key two sub-evaluators emit
C8_Witness ==
    /\ parallel
    /\ plan[1] = plan[2]
    /\ HasReturned(1)
    /\ HasReturned(2)
    /\ ret[1].map[SharedKey] # ret[2].map[SharedKey]

C10_FailureCancelsNothing ==
    \A c \in Calls : parallel =>
        /\ \A i \in Idx : ncalls[c][i] <= 1
        /\ HasRaised(c) => \A i \in Idx : ncalls[c][i] = 1 /\ fut[c][i] = "done"

\* a concurrent call raised; when its sub-evaluator failed another invocation was
\* still queued, every worker being busy
C10_Witness ==
    /\ parallel
    /\ HasRaised(1)
    /\ late[1]

====
